---- MODULE Spec2Model ----
(***************************************************************************)
(* The booking ledger of the Booklyfy front end in mock mode: the shared   *)
(* in-memory store (src/services/mock-store.ts), its seed                   *)
(* (src/services/mock-data.ts) and the booking handlers                     *)
(* (src/services/booking.service.ts).                                       *)
(*                                                                          *)
(* Representation.                                                          *)
(*  - An instant is a number of minutes counted from local midnight of the  *)
(*    day the module was loaded (day 0 = "today", day 1 = "tomorrow").      *)
(*    Date <-> ISO string conversions are exact at millisecond precision,   *)
(*    and every instant the handlers build is a whole minute.               *)
(*  - Ids are numbers: the seeded 'booking-3' is 3, 'service-1' is 1; an id *)
(*    built as `booking-${Date.now()}` is TimeId(now).  0 is `undefined`.   *)
(*  - `now` is the reading of Date.now(), in ticks.  Only the order and the *)
(*    equality of the readings that end up in the store matter.             *)
(***************************************************************************)
EXTENDS Integers, Sequences, FiniteSets, TLC

VARIABLES
    bookings,    \* mockStore.bookings
    customers,   \* mockStore.customers (objects shared with mockCustomers)
    services,    \* mockStore.services
    staff,       \* mockStore.staff
    now,         \* Date.now()
    avail,       \* the last AvailabilityResponse handed to the caller, NoAvail once the store changed
    lastOp,      \* the last handler call and the OperationResult it returned
    cancelLog,   \* history: <<businessId, bookingId>> of every cancel that returned success
    guestLog,    \* history: the successful createBooking calls that carried no customerId, in order
    ops,         \* number of calls so far that changed the store
    calls,       \* the createBooking calls issued without awaiting one another
    view,        \* the last response of a read call handed to the caller, NoView once the store changed
    localMockCustomers  \* the customer list of customer.service.ts

vars == <<bookings, customers, services, staff, now, avail, lastOp, cancelLog, guestLog, ops,
          calls, view, localMockCustomers>>

----------------------------------------------------------------------------
(* Bounds of the exploration *)

MaxOps == 2          \* store-changing calls explored from the seed
MaxRescheduleOps == 3 \* the same, for a caller that books, reassigns and cancels

----------------------------------------------------------------------------
(* Time and ids *)

At(day, hour, minute) == (day * 24 + hour) * 60 + minute

Undefined == 0
NoTime == 0 - 1
TimeId(t) == 100 + t

\* the instant the module was loaded: 08:00 on day 0
loadedAt == At(0, 8, 0)
yesterday == loadedAt - 24 * 60

----------------------------------------------------------------------------
(* Seed: src/services/mock-data.ts *)

Staff(id) == [id |-> id, businessId |-> 1]

mockStaff == << Staff(1), Staff(2), Staff(3) >>

Service(id, duration, price, bufferAfter) ==
    [id |-> id, businessId |-> 1, durationMinutes |-> duration, price |-> price,
     currency |-> "SEK", bufferTimeBefore |-> 0, bufferTimeAfter |-> bufferAfter]

mockServices ==
    << Service(1, 60, 550, 10),  Service(2, 30, 350, 5),
       Service(3, 30, 250, 5),   Service(4, 120, 1200, 15),
       Service(5, 150, 1500, 15), Service(6, 45, 450, 5),
       Service(7, 20, 200, 5),   Service(8, 30, 350, 10) >>

Customer(id, email, totalBookings, totalSpent, lastVisitAt) ==
    [id |-> id, businessId |-> 1, email |-> email, totalBookings |-> totalBookings,
     totalSpent |-> totalSpent, lastVisitAt |-> lastVisitAt]

mockCustomers ==
    << Customer(1, "anna.svensson@email.com", 12, 8500, yesterday),
       Customer(2, "erik.lindberg@email.com", 8, 2800, yesterday),
       Customer(3, "maria.johansson@email.com", 24, 18500, yesterday),
       Customer(4, "karl.nilsson@email.com", 3, 1050, At(0 - 46, 10, 0)),
       Customer(5, "lisa.berg@email.com", 1, 550, yesterday) >>

createBookingTime(daysFromNow, hour, durationMinutes) ==
    [startTime |-> At(daysFromNow, hour, 0),
     endTime   |-> At(daysFromNow, hour, 0) + durationMinutes]

\* `service` is the duration of the Service object the booking embeds
Booking(id, customerId, staffId, serviceId, time, status, price) ==
    [id |-> id, businessId |-> 1, customerId |-> customerId, staffId |-> staffId,
     serviceId |-> serviceId, startTime |-> time.startTime, endTime |-> time.endTime,
     status |-> status, price |-> price, currency |-> "SEK",
     service |-> mockServices[serviceId].durationMinutes,
     cancellationReason |-> "", cancelledAt |-> NoTime, cancelledBy |-> ""]

mockBookings ==
    << Booking(1, 1, 2, 1, createBookingTime(0, 10, 60), "confirmed", 550),
       Booking(2, 2, 3, 2, createBookingTime(0, 11, 30), "confirmed", 350),
       Booking(3, 3, 2, 4, createBookingTime(0, 14, 120), "confirmed", 1200),
       Booking(4, 5, 1, 1, createBookingTime(1, 9, 60), "confirmed", 550),
       Booking(5, 4, 3, 7, createBookingTime(1, 10, 20), "pending", 200),
       Booking(6, 1, 2, 5, createBookingTime(0 - 7, 11, 150), "completed", 1500),
       Booking(7, 2, 3, 2, createBookingTime(0 - 3, 15, 30), "completed", 350),
       [Booking(8, 4, 1, 1, createBookingTime(0 - 1, 10, 60), "cancelled", 550)
          EXCEPT !.cancellationReason = "Customer requested cancellation",
                 !.cancelledAt = 0, !.cancelledBy = "customer"] >>

\* a time of day ('09:00') in minutes
HHMM(hour, minute) == hour * 60 + minute

WorkingHours(staffId, dayOfWeek, startTime, endTime, isEnabled) ==
    [staffId |-> staffId, dayOfWeek |-> dayOfWeek, startTime |-> startTime,
     endTime |-> endTime, isEnabled |-> isEnabled]

\* Monday to Friday 09:00-18:00, Saturday 10:00-16:00, Sunday closed
createWorkingHoursForStaff(staffId) ==
    [day \in 1..5 |-> WorkingHours(staffId, day, HHMM(9, 0), HHMM(18, 0), TRUE)]
    \o << WorkingHours(staffId, 6, HHMM(10, 0), HHMM(16, 0), TRUE),
          WorkingHours(staffId, 0, HHMM(0, 0), HHMM(0, 0), FALSE) >>

mockWorkingHours ==
    createWorkingHoursForStaff(1) \o createWorkingHoursForStaff(2)
    \o createWorkingHoursForStaff(3)

----------------------------------------------------------------------------
(* OperationResult: src/types/api.ts *)

createSuccessResult(statusCode) ==
    [isSuccess |-> TRUE, code |-> "", statusCode |-> statusCode]

createErrorResult(code, statusCode) ==
    [isSuccess |-> FALSE, code |-> code, statusCode |-> statusCode]

createNotFoundResult == createErrorResult("NOT_FOUND", 404)

----------------------------------------------------------------------------
(* Array helpers *)

\* Array.prototype.findIndex, 1-based; 0 when nothing matches
findIndex(arr, P(_)) ==
    IF \E i \in DOMAIN arr : P(arr[i])
    THEN CHOOSE i \in DOMAIN arr : P(arr[i]) /\ \A j \in 1..(i - 1) : ~P(arr[j])
    ELSE 0

some(arr, P(_)) == \E i \in DOMAIN arr : P(arr[i])

----------------------------------------------------------------------------
(* MockStore helpers: src/services/mock-store.ts *)

\* addBooking that pushes the booking twice
addBookingTwice(booking) == Append(Append(bookings, booking), booking)

addBooking(booking) == Append(bookings, booking)

\* updateBooking that drops the booking instead of replacing it
updateBookingRemoving(id, updates) ==
    LET index == findIndex(bookings, LAMBDA b : b.id = id)
    IN  IF index # 0
        THEN SubSeq(bookings, 1, index - 1) \o SubSeq(bookings, index + 1, Len(bookings))
        ELSE bookings

\* the first booking with this id is replaced by { ...old, ...updates }
updateBooking(id, updates) ==
    LET index == findIndex(bookings, LAMBDA b : b.id = id)
    IN  IF index # 0 THEN [bookings EXCEPT ![index] = updates @@ bookings[index]]
        ELSE bookings

addCustomer(customer) == Append(customers, customer)

\* findCustomerByEmail that never finds
findCustomerByEmailNever(email) == 0

findCustomerByEmail(email) == findIndex(customers, LAMBDA c : c.email = email)

----------------------------------------------------------------------------
(* Handlers: src/services/booking.service.ts.  A handler is an operator     *)
(* from the current store to the OperationResult it returns and the store   *)
(* it leaves.                                                               *)

Outcome(result, newBookings, newCustomers, id) ==
    [result |-> result, bookings |-> newBookings, customers |-> newCustomers, id |-> id]

Rejected(result) == Outcome(result, bookings, customers, Undefined)

\* isBooked with `<=` for `<`: a booking that only touches the slot blocks it
isBookedTouching(businessId, request, startTime, endTime) ==
    some(bookings, LAMBDA b :
        /\ b.businessId = businessId
        /\ b.status # "cancelled"
        /\ (request.staffId = Undefined \/ b.staffId = request.staffId)
        /\ b.startTime <= endTime
        /\ b.endTime >= startTime)

\* the bookings.some(...) test of mockGetAvailability for one slot
isBooked(businessId, request, startTime, endTime) ==
    some(bookings, LAMBDA b :
        /\ b.businessId = businessId
        /\ b.status # "cancelled"
        /\ (request.staffId = Undefined \/ b.staffId = request.staffId)
        /\ b.startTime < endTime
        /\ b.endTime > startTime)

\* one TimeSlot of the 9..17 hour loop
TimeSlot(businessId, request, service, hour) ==
    LET startTime == At(request.date, hour, 0)
        endTime   == startTime + service.durationMinutes
    IN  [startTime |-> startTime, endTime |-> endTime,
         isAvailable |-> ~isBooked(businessId, request, startTime, endTime)]

mockGetAvailability(businessId, request) ==
    LET index == findIndex(services, LAMBDA s : s.id = request.serviceId)
    IN  IF index = 0
        THEN [result |-> createNotFoundResult, slots |-> << >>]
        ELSE [result |-> createSuccessResult(200),
              slots  |-> [k \in 1..9 |-> TimeSlot(businessId, request, services[index], 8 + k)]]

\* hasConflict with `<=` for `<`: a booking that only touches the interval blocks it
hasConflictTouching(businessId, request, startTime, endTime) ==
    some(bookings, LAMBDA b :
        /\ b.businessId = businessId
        /\ b.staffId = request.staffId
        /\ b.status # "cancelled"
        /\ b.startTime <= endTime
        /\ b.endTime >= startTime)

\* hasConflict counting confirmed bookings only
hasConflictConfirmedOnly(businessId, request, startTime, endTime) ==
    some(bookings, LAMBDA b :
        /\ b.businessId = businessId
        /\ b.staffId = request.staffId
        /\ b.status = "confirmed"
        /\ b.startTime < endTime
        /\ b.endTime > startTime)

\* hasConflict comparing start times for equality instead of intervals
hasConflictSameStart(businessId, request, startTime, endTime) ==
    some(bookings, LAMBDA b :
        /\ b.businessId = businessId
        /\ b.staffId = request.staffId
        /\ b.status # "cancelled"
        /\ b.startTime = startTime)

\* the bookings.some(...) test of mockCreateBooking
hasConflict(businessId, request, startTime, endTime) ==
    some(bookings, LAMBDA b :
        /\ b.businessId = businessId
        /\ b.staffId = request.staffId
        /\ b.status # "cancelled"
        /\ b.startTime < endTime
        /\ b.endTime > startTime)

\* "Find or create customer": the customer list after the lookup and the
\* index in it of the resolved customer, 0 when there is none
resolveCustomer(businessId, request) ==
    LET byId    == findIndex(customers, LAMBDA c : c.id = request.customerId)
        byEmail == findCustomerByEmail(request.customerEmail)
        guest   == [id |-> TimeId(now), businessId |-> businessId,
                    email |-> request.customerEmail, totalBookings |-> 0,
                    totalSpent |-> 0, lastVisitAt |-> NoTime]
    IN  IF byId # 0 THEN [customers |-> customers, index |-> byId]
        ELSE IF request.customerEmail = "" THEN [customers |-> customers, index |-> 0]
        ELSE IF byEmail # 0 THEN [customers |-> customers, index |-> byEmail]
        ELSE [customers |-> addCustomer(guest), index |-> Len(customers) + 1]

\* "Update customer stats"
updateCustomerStats(list, index, service, startTime) ==
    [list EXCEPT ![index] =
        [@ EXCEPT !.totalBookings = @ + 1,
                  !.totalSpent = @ + service.price,
                  !.lastVisitAt = startTime]]

mockCreateBooking(businessId, request) ==
    LET serviceIndex == findIndex(services, LAMBDA s : s.id = request.serviceId)
        staffIndex   == findIndex(staff, LAMBDA s : s.id = request.staffId)
    IN  IF serviceIndex = 0 THEN Rejected(createNotFoundResult)
        ELSE IF staffIndex = 0 THEN Rejected(createNotFoundResult)
        ELSE
        LET service   == services[serviceIndex]
            startTime == request.startTime
            endTime   == startTime + service.durationMinutes
        IN  IF hasConflict(businessId, request, startTime, endTime)
            THEN Rejected(createErrorResult("SLOT_NOT_AVAILABLE", 409))
            ELSE
            LET found == resolveCustomer(businessId, request)
            IN  IF found.index = 0
                THEN Rejected(createErrorResult("CUSTOMER_NOT_FOUND", 400))
                ELSE
                LET customer   == found.customers[found.index]
                    newBooking ==
                        [id |-> TimeId(now), businessId |-> businessId,
                         customerId |-> customer.id, staffId |-> request.staffId,
                         serviceId |-> request.serviceId,
                         startTime |-> startTime, endTime |-> endTime,
                         status |-> "confirmed",
                         price |-> service.price, currency |-> service.currency,
                         service |-> service.durationMinutes,
                         cancellationReason |-> "", cancelledAt |-> NoTime,
                         cancelledBy |-> ""]
                IN  Outcome(createSuccessResult(201),
                            addBooking(newBooking),
                            updateCustomerStats(found.customers, found.index, service, startTime),
                            newBooking.id)

\* bookings.find(b => b.id === bookingId && b.businessId === businessId)
findBooking(businessId, bookingId) ==
    findIndex(bookings, LAMBDA b : b.id = bookingId /\ b.businessId = businessId)

mockGetBookingById(businessId, bookingId) ==
    LET index == findBooking(businessId, bookingId)
    IN  IF index = 0 THEN [result |-> createNotFoundResult, data |-> << >>]
        ELSE [result |-> createSuccessResult(200), data |-> bookings[index]]

\* the bookings.some(...) test of mockUpdateBooking
hasConflictOnUpdate(businessId, bookingId, staffId, startTime, endTime) ==
    some(bookings, LAMBDA b :
        /\ b.id # bookingId
        /\ b.businessId = businessId
        /\ b.staffId = staffId
        /\ b.status # "cancelled"
        /\ b.startTime < endTime
        /\ b.endTime > startTime)

\* request.staffId and request.startTime are Undefined when left out
mockUpdateBooking(businessId, bookingId, request) ==
    LET index == findBooking(businessId, bookingId)
    IN  IF index = 0 THEN Rejected(createNotFoundResult)
        ELSE
        LET booking      == bookings[index]
            serviceIndex == findIndex(services, LAMBDA s : s.id = booking.serviceId)
            duration     == IF serviceIndex # 0 /\ services[serviceIndex].durationMinutes # 0
                            THEN services[serviceIndex].durationMinutes ELSE 60
            staffId      == IF request.staffId # Undefined THEN request.staffId
                            ELSE booking.staffId
            staffUpdate  == IF request.staffId # Undefined
                            THEN [staffId |-> request.staffId] ELSE << >>
            timeUpdate   == IF request.startTime # Undefined
                            THEN [startTime |-> request.startTime,
                                  endTime |-> request.startTime + booking.service]
                            ELSE << >>
        IN  IF booking.status = "cancelled" \/ booking.status = "completed"
            THEN Rejected(createErrorResult("BAD_REQUEST", 400))
            ELSE IF /\ request.startTime # Undefined
                    /\ hasConflictOnUpdate(businessId, bookingId, staffId,
                                           request.startTime, request.startTime + duration)
            THEN Rejected(createErrorResult("SLOT_NOT_AVAILABLE", 409))
            ELSE Outcome(createSuccessResult(200),
                         updateBooking(bookingId, staffUpdate @@ timeUpdate),
                         customers, bookingId)

\* mockCancelBooking without the already-cancelled test
mockCancelBookingAgain(businessId, bookingId, reason) ==
    LET index == findIndex(bookings, LAMBDA b : b.id = bookingId /\ b.businessId = businessId)
    IN  IF index = 0 THEN Rejected(createNotFoundResult)
        ELSE IF bookings[index].status = "completed"
        THEN Rejected(createErrorResult("BAD_REQUEST", 400))
        ELSE Outcome(createSuccessResult(200),
                     updateBooking(bookingId,
                         [status |-> "cancelled", cancellationReason |-> reason,
                          cancelledAt |-> now, cancelledBy |-> "staff"]),
                     customers, bookingId)

mockCancelBooking(businessId, bookingId, reason) ==
    LET index == findBooking(businessId, bookingId)
    IN  IF index = 0 THEN Rejected(createNotFoundResult)
        ELSE IF bookings[index].status = "cancelled"
        THEN Rejected(createErrorResult("BOOKING_ALREADY_CANCELLED", 400))
        ELSE IF bookings[index].status = "completed"
        THEN Rejected(createErrorResult("BAD_REQUEST", 400))
        ELSE Outcome(createSuccessResult(200),
                     updateBooking(bookingId,
                         [status |-> "cancelled", cancellationReason |-> reason,
                          cancelledAt |-> now, cancelledBy |-> "staff"]),
                     customers, bookingId)

\* mockConfirmBooking that also accepts a confirmed booking
mockConfirmBookingAgain(businessId, bookingId) ==
    LET index == findBooking(businessId, bookingId)
    IN  IF index = 0 THEN Rejected(createNotFoundResult)
        ELSE IF bookings[index].status \notin {"pending", "confirmed"}
        THEN Rejected(createErrorResult("BAD_REQUEST", 400))
        ELSE Outcome(createSuccessResult(200),
                     updateBooking(bookingId, [status |-> "confirmed"]),
                     customers, bookingId)

mockConfirmBooking(businessId, bookingId) ==
    LET index == findBooking(businessId, bookingId)
    IN  IF index = 0 THEN Rejected(createNotFoundResult)
        ELSE IF bookings[index].status # "pending"
        THEN Rejected(createErrorResult("BAD_REQUEST", 400))
        ELSE Outcome(createSuccessResult(200),
                     updateBooking(bookingId, [status |-> "confirmed"]),
                     customers, bookingId)

mockCompleteBooking(businessId, bookingId) ==
    LET index == findBooking(businessId, bookingId)
    IN  IF index = 0 THEN Rejected(createNotFoundResult)
        ELSE IF bookings[index].status = "cancelled"
        THEN Rejected(createErrorResult("BAD_REQUEST", 400))
        ELSE Outcome(createSuccessResult(200),
                     updateBooking(bookingId, [status |-> "completed"]),
                     customers, bookingId)

mockMarkNoShow(businessId, bookingId) ==
    LET index == findBooking(businessId, bookingId)
    IN  IF index = 0 THEN Rejected(createNotFoundResult)
        ELSE IF bookings[index].status = "cancelled" \/ bookings[index].status = "completed"
        THEN Rejected(createErrorResult("BAD_REQUEST", 400))
        ELSE Outcome(createSuccessResult(200),
                     updateBooking(bookingId, [status |-> "no_show"]),
                     customers, bookingId)

----------------------------------------------------------------------------
(* Inputs of the calls *)

CreateBookingRequest(customerId, customerEmail, staffId, serviceId, startTime) ==
    [customerId |-> customerId, customerEmail |-> customerEmail, staffId |-> staffId,
     serviceId |-> serviceId, startTime |-> startTime]

\* Tomorrow morning, where the seed has booking-4 (staff-1, 09:00-10:00) and
\* the pending booking-5 (staff-3, 10:00-10:20).  The booking is for a known
\* customerId, for a guest e-mail (a new one, or the one of the seeded
\* customer-1), or for nobody; 'service-9' and 'staff-9' do not exist.
Guest == "guest@email.com"
Anna == "anna.svensson@email.com"

CreateRequests ==
    { CreateBookingRequest(1, "", 1, 1, At(1, 10, 0)),
      CreateBookingRequest(Undefined, Guest, 1, 2, At(1, 10, 0)),
      CreateBookingRequest(Undefined, Guest, 1, 2, At(1, 10, 30)),
      CreateBookingRequest(Undefined, Guest, 3, 2, At(1, 10, 0)),
      CreateBookingRequest(Undefined, Anna, 3, 1, At(1, 9, 0)),
      CreateBookingRequest(Undefined, Anna, 1, 2, At(1, 10, 30)),
      CreateBookingRequest(Undefined, "", 1, 2, At(1, 10, 30)),
      CreateBookingRequest(1, "", 1, 9, At(1, 10, 0)),
      CreateBookingRequest(1, "", 9, 1, At(1, 10, 0)) }

UpdateBookingRequest(staffId, startTime) == [staffId |-> staffId, startTime |-> startTime]

UpdateRequests ==
    { UpdateBookingRequest(Undefined, At(1, 10, 0)),
      UpdateBookingRequest(1, At(1, 9, 0)) }

AvailabilityRequest(staffId, serviceId, date) ==
    [staffId |-> staffId, serviceId |-> serviceId, date |-> date]

\* 'service-4' takes 120 minutes
AvailabilityRequests ==
    { AvailabilityRequest(staffId, serviceId, 1) :
        staffId \in {Undefined, 1, 3}, serviceId \in {1, 2, 9} }
    \cup { AvailabilityRequest(1, 4, 1) }

BusinessIds == {1}

Reasons == {"", "changed plans"}

\* the bookings the status calls are aimed at: the pending, a completed and
\* the cancelled seeded booking, every booking made since, and no booking
BookingIds ==
    {5, 6, 8, 9} \cup { bookings[i].id : i \in (Len(mockBookings) + 1)..Len(bookings) }

----------------------------------------------------------------------------
(* What is recorded of a call *)

\* two clients, each issuing one createBooking while the other's may be pending
Clients == {"a", "b"}

NoCall ==
    [pc |-> "idle", businessId |-> Undefined,
     request |-> CreateBookingRequest(Undefined, "", Undefined, Undefined, 0),
     result |-> createSuccessResult(200), concurrent |-> FALSE]

NoAvail ==
    [businessId |-> Undefined, request |-> AvailabilityRequest(Undefined, Undefined, 0),
     slots |-> << >>]

NoView == [kind |-> "none"]

\* `let localMockCustomers = [...mockCustomers]`: the entries of the list are
\* the customer objects themselves; what identifies one is kept
CustomerRef(customer) ==
    [id |-> customer.id, businessId |-> customer.businessId, email |-> customer.email]

NoFlags ==
    [overlap |-> FALSE, slot |-> "", resolvable |-> FALSE, repeat |-> FALSE, email |-> "",
     freed |-> FALSE, reassign |-> FALSE, customerId |-> Undefined, moved |-> FALSE]

Op(kind, businessId, id, prev, result, changed, flags) ==
    [kind |-> kind, businessId |-> businessId, id |-> id, prev |-> prev,
     result |-> result, changed |-> changed, flags |-> flags]

\* the status the handler finds on the booking it is aimed at
StatusOf(businessId, bookingId) ==
    IF findBooking(businessId, bookingId) = 0 THEN ""
    ELSE bookings[findBooking(businessId, bookingId)].status

Changes(o) == o.bookings # bookings \/ o.customers # customers

\* The exported function, awaited by its caller: the simulated delay, then
\* the handler, run to its end.  The delay of the next call (at least 200 ms)
\* lies between two handlers, so the next handler reads a later Date.now();
\* the clock is stepped when a reading went into the store.
CallWithin(limit, kind, businessId, bookingId, o, flags) ==
    /\ Changes(o) => ops < limit
    /\ bookings' = o.bookings
    /\ customers' = o.customers
    /\ ops' = IF Changes(o) THEN ops + 1 ELSE ops
    /\ now' = IF Changes(o) THEN now + 1 ELSE now
    /\ avail' = IF Changes(o) THEN NoAvail ELSE avail
    /\ lastOp' = Op(kind, businessId,
                    IF kind = "create" THEN o.id ELSE bookingId,
                    StatusOf(businessId, bookingId), o.result, Changes(o), flags)
    /\ view' = IF Changes(o) THEN NoView ELSE view
    /\ UNCHANGED <<services, staff, calls, localMockCustomers>>

Call(kind, businessId, bookingId, o, flags) ==
    CallWithin(MaxOps, kind, businessId, bookingId, o, flags)

----------------------------------------------------------------------------
(* Observations made at a createBooking call, written without the handler's *)
(* own tests                                                                *)

Max(a, b) == IF a >= b THEN a ELSE b
Min(a, b) == IF a <= b THEN a ELSE b

KnownService(serviceId) == \E i \in DOMAIN services : services[i].id = serviceId
KnownStaff(staffId) == \E i \in DOMAIN staff : staff[i].id = staffId
DurationOf(serviceId) ==
    (CHOOSE s \in { services[i] : i \in DOMAIN services } : s.id = serviceId).durationMinutes

\* the requested interval shares an instant with a non-cancelled booking of
\* the same staff member in the business's ledger
Overlapping(businessId, request) ==
    /\ KnownService(request.serviceId)
    /\ KnownStaff(request.staffId)
    /\ \E i \in DOMAIN bookings :
          /\ bookings[i].businessId = businessId
          /\ bookings[i].staffId = request.staffId
          /\ bookings[i].status # "cancelled"
          /\ Max(bookings[i].startTime, request.startTime)
               < Min(bookings[i].endTime, request.startTime + DurationOf(request.serviceId))

\* staff member exists and the request names a customer or carries an e-mail
Resolvable(request) ==
    /\ KnownStaff(request.staffId)
    /\ \/ \E i \in DOMAIN customers : customers[i].id = request.customerId
       \/ request.customerEmail # ""

\* the requested interval is the one of the booking of this staff member
\* that the call before this one cancelled
Freed(businessId, request) ==
    /\ lastOp.kind = "cancel"
    /\ lastOp.result.isSuccess
    /\ lastOp.businessId = businessId
    /\ KnownService(request.serviceId)
    /\ \E i \in DOMAIN bookings :
          /\ bookings[i].id = lastOp.id
          /\ bookings[i].businessId = businessId
          /\ bookings[i].staffId = request.staffId
          /\ bookings[i].startTime = request.startTime
          /\ bookings[i].endTime = request.startTime + DurationOf(request.serviceId)

\* the update is aimed at a pending, confirmed or no_show booking, and the
\* interval it would leave the booking with (the current one when startTime
\* is left out) shares an instant with another non-cancelled booking of the
\* staff member it would leave the booking with
OverlappingOnUpdate(businessId, bookingId, request) ==
    \E i \in DOMAIN bookings :
        /\ bookings[i].id = bookingId
        /\ bookings[i].businessId = businessId
        /\ bookings[i].status \notin {"cancelled", "completed"}
        /\ LET staffId   == IF request.staffId # Undefined THEN request.staffId
                            ELSE bookings[i].staffId
               startTime == IF request.startTime # Undefined THEN request.startTime
                            ELSE bookings[i].startTime
               endTime   == IF request.startTime # Undefined
                            THEN request.startTime + bookings[i].service
                            ELSE bookings[i].endTime
           IN  \E j \in DOMAIN bookings :
                  /\ j # i
                  /\ bookings[j].id # bookingId
                  /\ bookings[j].staffId = staffId
                  /\ bookings[j].status # "cancelled"
                  /\ Max(bookings[j].startTime, startTime) < Min(bookings[j].endTime, endTime)

\* what the availability response the caller holds says of the requested slot
SlotFlag(businessId, request) ==
    IF /\ avail # NoAvail
       /\ avail.businessId = businessId
       /\ avail.request.serviceId = request.serviceId
       /\ avail.request.staffId \in {Undefined, request.staffId}
       /\ \E k \in DOMAIN avail.slots : avail.slots[k].startTime = request.startTime
    THEN LET k == CHOOSE k \in DOMAIN avail.slots :
                      avail.slots[k].startTime = request.startTime
         IN  IF avail.slots[k].isAvailable THEN "available" ELSE "unavailable"
    ELSE ""

----------------------------------------------------------------------------
(* The calls *)

Init ==
    /\ bookings = mockBookings
    /\ customers = mockCustomers
    /\ services = mockServices
    /\ staff = mockStaff
    /\ now = 1
    /\ avail = NoAvail
    /\ lastOp = Op("load", Undefined, Undefined, "", createSuccessResult(200), FALSE, NoFlags)
    /\ cancelLog = {}
    /\ guestLog = << >>
    /\ ops = 0
    /\ calls = [c \in Clients |-> NoCall]
    /\ view = NoView
    /\ localMockCustomers = [k \in DOMAIN mockCustomers |-> CustomerRef(mockCustomers[k])]

GetAvailabilityOf(businessIds, requests) ==
    \E businessId \in businessIds, request \in requests :
        LET r == mockGetAvailability(businessId, request)
        IN  /\ avail' = IF r.result.isSuccess
                        THEN [businessId |-> businessId, request |-> request, slots |-> r.slots]
                        ELSE NoAvail
            /\ lastOp' = Op("availability", businessId, Undefined, "", r.result, FALSE, NoFlags)
            /\ UNCHANGED <<bookings, customers, services, staff, now, cancelLog, guestLog, ops,
                           calls, view, localMockCustomers>>

GetAvailability == GetAvailabilityOf(BusinessIds, AvailabilityRequests)

\* the guest log entry of a successful call without customerId
GuestEntry(businessId, request, o) ==
    LET index == findCustomerByEmail(request.customerEmail)
    IN  [businessId |-> businessId, email |-> request.customerEmail,
         customerId |-> o.bookings[Len(o.bookings)].customerId,
         position |-> Len(o.bookings),
         created |-> (index = 0),
         before |-> IF index = 0 THEN 0 ELSE customers[index].totalBookings]

CreateBookingOf(limit, businessIds, requests) ==
    \E businessId \in businessIds, request \in requests :
        LET o == mockCreateBooking(businessId, request)
        IN  /\ CallWithin(limit, "create", businessId, Undefined, o,
                    [overlap |-> Overlapping(businessId, request),
                     slot |-> SlotFlag(businessId, request),
                     resolvable |-> Resolvable(request),
                     repeat |-> FALSE,
                     email |-> request.customerEmail,
                     freed |-> Freed(businessId, request),
                     reassign |-> FALSE,
                     customerId |-> request.customerId,
                     moved |-> FALSE])
            /\ guestLog' = IF o.result.isSuccess /\ request.customerId = Undefined
                           THEN Append(guestLog, GuestEntry(businessId, request, o))
                           ELSE guestLog
            /\ UNCHANGED cancelLog

CreateBooking == CreateBookingOf(MaxOps, BusinessIds, CreateRequests)

UpdateBookingOf(limit, businessIds, requests) ==
    \E businessId \in businessIds, bookingId \in BookingIds, request \in requests :
        /\ CallWithin(limit, "update", businessId, bookingId,
                      mockUpdateBooking(businessId, bookingId, request),
                      [NoFlags EXCEPT
                         !.overlap = OverlappingOnUpdate(businessId, bookingId, request),
                         !.reassign = (request.staffId # Undefined
                                         /\ request.startTime = Undefined),
                         !.moved = (request.startTime # Undefined)])
        /\ UNCHANGED <<cancelLog, guestLog>>

UpdateBooking == UpdateBookingOf(MaxOps, BusinessIds, UpdateRequests)

CancelBookingOf(limit, businessIds, bookingIds, reasons) ==
    \E businessId \in businessIds, bookingId \in bookingIds, reason \in reasons :
        LET o == mockCancelBooking(businessId, bookingId, reason)
        IN  /\ CallWithin(limit, "cancel", businessId, bookingId, o,
                    [NoFlags EXCEPT !.repeat = <<businessId, bookingId>> \in cancelLog])
            /\ cancelLog' = IF o.result.isSuccess
                            THEN cancelLog \cup { <<businessId, bookingId>> }
                            ELSE cancelLog
            /\ UNCHANGED guestLog

CancelBooking == CancelBookingOf(MaxOps, BusinessIds, BookingIds, Reasons)

ConfirmBooking ==
    \E businessId \in BusinessIds, bookingId \in BookingIds :
        /\ Call("confirm", businessId, bookingId,
                mockConfirmBooking(businessId, bookingId), NoFlags)
        /\ UNCHANGED <<cancelLog, guestLog>>

CompleteBookingOf(limit, businessIds, bookingIds) ==
    \E businessId \in businessIds, bookingId \in bookingIds :
        /\ CallWithin(limit, "complete", businessId, bookingId,
                      mockCompleteBooking(businessId, bookingId), NoFlags)
        /\ UNCHANGED <<cancelLog, guestLog>>

CompleteBooking == CompleteBookingOf(MaxOps, BusinessIds, BookingIds)

MarkBookingNoShow ==
    \E businessId \in BusinessIds, bookingId \in BookingIds :
        /\ Call("noShow", businessId, bookingId,
                mockMarkNoShow(businessId, bookingId), NoFlags)
        /\ UNCHANGED <<cancelLog, guestLog>>

\* the ledger under one caller that awaits each call
Next ==
    \/ CreateBooking
    \/ UpdateBooking
    \/ CancelBooking
    \/ ConfirmBooking
    \/ CompleteBooking
    \/ MarkBookingNoShow

Spec == Init /\ [][Next]_vars

\* a caller that queries availability before it books
NextAvailability ==
    \/ GetAvailability
    \/ CreateBooking
    \/ CancelBooking

SpecAvailability == Init /\ [][NextAvailability]_vars

\* A caller that books, moves a booking to another staff member, cancels and
\* queries, tomorrow at 09:00, where staff-1 has the seeded booking-4.
RescheduleCreates ==
    { CreateBookingRequest(Undefined, Anna, 3, 1, At(1, 9, 0)),
      CreateBookingRequest(Undefined, Anna, 1, 1, At(1, 9, 0)),
      CreateBookingRequest(Undefined, Anna, 3, 7, At(1, 10, 0)) }

RescheduleUpdates ==
    { UpdateBookingRequest(1, Undefined),
      UpdateBookingRequest(3, At(1, 9, 0)) }

RescheduleAvailability ==
    { AvailabilityRequest(1, 1, 1), AvailabilityRequest(3, 7, 1) }

NextReschedule ==
    \/ GetAvailabilityOf(BusinessIds, RescheduleAvailability)
    \/ CreateBookingOf(MaxRescheduleOps, BusinessIds, RescheduleCreates)
    \/ UpdateBookingOf(MaxRescheduleOps, BusinessIds, RescheduleUpdates)
    \/ CancelBookingOf(MaxRescheduleOps, BusinessIds, BookingIds, Reasons)

SpecReschedule == Init /\ [][NextReschedule]_vars

\* Callers of two businesses.  'business-1' owns the whole seed; 'business-2'
\* is a business registered since, which owns no service, staff member or
\* customer, and whose caller passes the ids of business-1.
TenantIds == {1, 2}

TenantCreates ==
    { CreateBookingRequest(Undefined, Anna, 1, 2, At(1, 10, 0)),
      CreateBookingRequest(Undefined, Guest, 1, 2, At(1, 10, 30)),
      CreateBookingRequest(1, "", 3, 1, At(1, 9, 0)) }

TenantAvailability ==
    { AvailabilityRequest(1, 1, 1), AvailabilityRequest(Undefined, 2, 1),
      AvailabilityRequest(1, 9, 1) }

NextTenants ==
    \/ GetAvailabilityOf(TenantIds, TenantAvailability)
    \/ CreateBookingOf(MaxOps, TenantIds, TenantCreates)
    \/ CancelBookingOf(MaxOps, TenantIds, BookingIds, Reasons)

SpecTenants == Init /\ [][NextTenants]_vars

----------------------------------------------------------------------------
(* createBooking calls in flight together.  createBooking awaits a 400 ms   *)
(* timer and then runs mockCreateBooking, which has no await in it: the     *)
(* event loop runs it from its first line to its return before any other    *)
(* callback.  Two handlers whose calls were pending together may read the   *)
(* same Date.now(); a call issued when no other is pending runs its handler *)
(* at least 400 ms after every handler before it.                           *)

IssueCreateBookingOf(c, businessIds, requests) ==
    /\ calls[c].pc = "idle"
    /\ \E businessId \in businessIds, request \in requests :
          calls' = [calls EXCEPT ![c] =
                      [pc |-> "waiting", businessId |-> businessId, request |-> request,
                       result |-> createSuccessResult(200),
                       concurrent |-> \E d \in Clients : calls[d].pc = "waiting"]]
    /\ now' = IF \E d \in Clients : calls[d].pc = "waiting" THEN now ELSE now + 1
    /\ UNCHANGED <<bookings, customers, services, staff, avail, lastOp, cancelLog,
                   guestLog, ops, view, localMockCustomers>>

IssueCreateBooking(c) == IssueCreateBookingOf(c, BusinessIds, CreateRequests)

ResumeCreateBooking(c) ==
    /\ calls[c].pc = "waiting"
    /\ LET o == mockCreateBooking(calls[c].businessId, calls[c].request)
       IN  /\ bookings' = o.bookings
           /\ customers' = o.customers
           /\ calls' = [calls EXCEPT ![c].pc = "done", ![c].result = o.result]
           /\ avail' = IF Changes(o) THEN NoAvail ELSE avail
    /\ \E tick \in {0, 1} : now' = now + tick
    /\ UNCHANGED <<services, staff, lastOp, cancelLog, guestLog, ops, view,
                   localMockCustomers>>

NextConcurrent ==
    \E c \in Clients :
        \/ IssueCreateBooking(c)
        \/ ResumeCreateBooking(c)

SpecConcurrent == Init /\ [][NextConcurrent]_vars

\* Two businesses in one store, with createBooking calls that may be pending
\* together: the first business books and cancels, the second completes.
SharedCreates == { CreateBookingRequest(Undefined, Guest, 1, 2, At(1, 10, 30)) }

MaxSharedOps == 3

CreatedIds == { bookings[i].id : i \in (Len(mockBookings) + 1)..Len(bookings) }

NextShared ==
    \/ \E c \in Clients : IssueCreateBookingOf(c, TenantIds, SharedCreates)
    \/ \E c \in Clients : ResumeCreateBooking(c)
    \/ CreateBookingOf(MaxSharedOps, {1}, SharedCreates)
    \/ CancelBookingOf(MaxSharedOps, {1}, CreatedIds, {""})
    \/ CompleteBookingOf(MaxSharedOps, {2}, CreatedIds)

SpecShared == Init /\ [][NextShared]_vars

----------------------------------------------------------------------------
(* The ledger read back *)

RECURSIVE SumPrice(_)
SumPrice(indices) ==
    IF indices = {} THEN 0
    ELSE LET i == CHOOSE i \in indices : TRUE
         IN  bookings[i].price + SumPrice(indices \ {i})

BookingsOf(customerId, statuses) ==
    { i \in DOMAIN bookings :
        bookings[i].customerId = customerId /\ bookings[i].status \in statuses }

CustomerById(customerId) ==
    customers[CHOOSE k \in DOMAIN customers : customers[k].id = customerId]

\* the buffers of the service a booking is for
BufferBefore(b) ==
    IF KnownService(b.serviceId)
    THEN (CHOOSE s \in { services[i] : i \in DOMAIN services } : s.id = b.serviceId).bufferTimeBefore
    ELSE 0
BufferAfter(b) ==
    IF KnownService(b.serviceId)
    THEN (CHOOSE s \in { services[i] : i \in DOMAIN services } : s.id = b.serviceId).bufferTimeAfter
    ELSE 0

----------------------------------------------------------------------------
(* C1 *)

\* C1: no double-booking.  For every staff member, any two distinct
\* non-cancelled bookings have [startTime, endTime) intervals that do not
\* overlap once each is widened by its service's bufferTimeBefore and
\* bufferTimeAfter.
NoDoubleBookingWithBuffers ==
    \A i, j \in DOMAIN bookings :
        ( /\ i < j
          /\ bookings[i].staffId = bookings[j].staffId
          /\ bookings[i].status # "cancelled"
          /\ bookings[j].status # "cancelled" )
        => ~ ( /\ bookings[i].startTime - BufferBefore(bookings[i])
                    < bookings[j].endTime + BufferAfter(bookings[j])
               /\ bookings[j].startTime - BufferBefore(bookings[j])
                    < bookings[i].endTime + BufferAfter(bookings[i]) )

----------------------------------------------------------------------------
(* C2 *)

Finished(c) == calls[c].pc = "done"

\* the intervals the two calls ask for, for one staff member of one business
SameSlot(c, d) ==
    /\ calls[c].businessId = calls[d].businessId
    /\ calls[c].request.staffId = calls[d].request.staffId
    /\ KnownService(calls[c].request.serviceId)
    /\ KnownService(calls[d].request.serviceId)
    /\ Max(calls[c].request.startTime, calls[d].request.startTime)
         < Min(calls[c].request.startTime + DurationOf(calls[c].request.serviceId),
               calls[d].request.startTime + DurationOf(calls[d].request.serviceId))

----------------------------------------------------------------------------
(* C3, C4 *)

\* C3: a createBooking for an existing staff member and a resolvable
\* customer, at a slot that the availability response the caller holds
\* reports isAvailable = true, with no change to the store in between,
\* succeeds.
AvailableSlotBooks ==
    ( /\ lastOp.kind = "create"
      /\ lastOp.flags.slot = "available"
      /\ lastOp.flags.resolvable )
    => lastOp.result.isSuccess

BookedFromAvailableSlot ==
    /\ lastOp.kind = "create"
    /\ lastOp.flags.slot = "available"
    /\ lastOp.flags.resolvable
    /\ lastOp.result = createSuccessResult(201)

\* C4: a createBooking for an existing staff member at a slot that the
\* availability response the caller holds reports isAvailable = false (for
\* the queried staff member, or for any staff member when the query carried
\* no staffId), with no change to the store in between, fails with
\* SLOT_NOT_AVAILABLE.
UnavailableSlotRejected ==
    ( /\ lastOp.kind = "create"
      /\ lastOp.flags.slot = "unavailable"
      /\ lastOp.flags.resolvable )
    => lastOp.result = createErrorResult("SLOT_NOT_AVAILABLE", 409)

----------------------------------------------------------------------------
(* C5 *)

\* C5: aggregation.  A customer's stored totalBookings is the number of the
\* customer's non-cancelled bookings and totalSpent the sum of price over the
\* confirmed and completed ones.  Stated of the customers the ledger created
\* itself, whose every booking went through the handlers (the seeded
\* customers' totals stand for a history the seeded ledger does not hold).
AggregationCorrect ==
    \A k \in DOMAIN customers :
        k > Len(mockCustomers)
        => /\ customers[k].totalBookings
                = Cardinality(BookingsOf(customers[k].id,
                                         {"pending", "confirmed", "completed", "no_show"}))
           /\ customers[k].totalSpent
                = SumPrice(BookingsOf(customers[k].id, {"confirmed", "completed"}))

----------------------------------------------------------------------------
(* C6 *)

----------------------------------------------------------------------------
(* C7, C8 *)

StateMachine ==
    { <<"pending", "confirmed">>, <<"pending", "cancelled">>,
      <<"confirmed", "completed">>, <<"confirmed", "cancelled">>,
      <<"confirmed", "no_show">> }

\* C7: every change of a booking's status is an edge of the state machine
\* pending -> {confirmed, cancelled}, confirmed -> {completed, cancelled,
\* no_show}.
StatusFollowsStateMachine ==
    [][ \A i \in DOMAIN bookings :
          bookings'[i].status # bookings[i].status
          => <<bookings[i].status, bookings'[i].status>> \in StateMachine ]_vars

\* C8: cancel, confirm, complete and markNoShow aimed at a completed,
\* cancelled or no_show booking return BAD_REQUEST
\* (BOOKING_ALREADY_CANCELLED for cancel on cancelled) and change nothing.
TerminalStatesReject ==
    ( /\ lastOp.kind \in {"cancel", "confirm", "complete", "noShow"}
      /\ lastOp.prev \in {"completed", "cancelled", "no_show"} )
    => /\ ~lastOp.result.isSuccess
       /\ lastOp.result.code = IF lastOp.kind = "cancel" /\ lastOp.prev = "cancelled"
                               THEN "BOOKING_ALREADY_CANCELLED" ELSE "BAD_REQUEST"
       /\ ~lastOp.changed

----------------------------------------------------------------------------
(* C9 *)

\* C9: a createBooking whose interval overlaps a non-cancelled booking of
\* the same staff member returns SLOT_NOT_AVAILABLE with status 409 and
\* leaves the ledger, the customer list and every customer's totals as they
\* were.
ConflictRejectedAtomically ==
    (lastOp.kind = "create" /\ lastOp.flags.overlap)
    => /\ lastOp.result = createErrorResult("SLOT_NOT_AVAILABLE", 409)
       /\ ~lastOp.changed

\* a guest request with an e-mail the store does not know was turned away
GuestTurnedAway ==
    /\ lastOp.kind = "create"
    /\ lastOp.flags.overlap
    /\ lastOp.flags.email = Guest
    /\ findCustomerByEmail(Guest) = 0

----------------------------------------------------------------------------
(* C10 *)

SameGuest(i, j) ==
    /\ guestLog[i].businessId = guestLog[j].businessId
    /\ guestLog[i].email = guestLog[j].email

\* C10 as stated: right after the second successful guest createBooking with
\* one e-mail, its customerId is the first's, one customer record has the
\* e-mail, and that customer's totalBookings is 2.
GuestReuseTotalIsTwo ==
    \A i, j \in DOMAIN guestLog :
        ( /\ i < j /\ j = Len(guestLog) /\ SameGuest(i, j)
          /\ \A h \in DOMAIN guestLog : SameGuest(h, j) => h \in {i, j}
          /\ lastOp.kind = "create" /\ lastOp.result.isSuccess
          /\ lastOp.id = bookings[guestLog[j].position].id )
        => /\ guestLog[j].customerId = guestLog[i].customerId
           /\ Cardinality({ k \in DOMAIN customers :
                              customers[k].email = guestLog[j].email }) = 1
           /\ CustomerById(guestLog[j].customerId).totalBookings = 2

\* C10: of two successful guest createBooking calls with one e-mail for one
\* business, the second's customerId is the first's, one customer record has
\* the e-mail, and the customer's totalBookings is its value before the
\* first call plus the number of bookings created for the customer from that
\* call on (2 when the first call created the record and no other booking
\* was made for the customer).
GuestReuse ==
    \A i, j \in DOMAIN guestLog :
        (i < j /\ SameGuest(i, j))
        => /\ guestLog[j].customerId = guestLog[i].customerId
           /\ Cardinality({ k \in DOMAIN customers :
                              customers[k].email = guestLog[j].email }) = 1
           /\ CustomerById(guestLog[i].customerId).totalBookings
                = guestLog[i].before
                  + Cardinality({ k \in guestLog[i].position..Len(bookings) :
                                    bookings[k].customerId = guestLog[i].customerId })

\* the first call created the guest record, the second reused it
GuestBookedTwice ==
    \E i, j \in DOMAIN guestLog :
        /\ i < j /\ SameGuest(i, j)
        /\ guestLog[i].created
        /\ ~guestLog[j].created
        /\ CustomerById(guestLog[j].customerId).totalBookings = 2

----------------------------------------------------------------------------
(* C11 *)

DayOf(t) == t \div (24 * 60)

\* C11: cancel frees the slot.  After a successful cancelBooking of booking
\* B, an availability response for B's staff member and date reports
\* isAvailable = true for every slot that overlaps no non-cancelled booking
\* of that staff member other than B, and a createBooking into B's former
\* interval for that staff member (existing service, resolvable customer,
\* issued right after the cancel) succeeds.
CancelFreesSlot ==
    /\ \A i \in DOMAIN bookings :
          ( /\ <<bookings[i].businessId, bookings[i].id>> \in cancelLog
            /\ avail # NoAvail
            /\ avail.businessId = bookings[i].businessId
            /\ avail.request.staffId = bookings[i].staffId
            /\ avail.request.date = DayOf(bookings[i].startTime) )
          => \A k \in DOMAIN avail.slots :
                ( ~ \E j \in DOMAIN bookings :
                        /\ j # i
                        /\ bookings[j].staffId = bookings[i].staffId
                        /\ bookings[j].status # "cancelled"
                        /\ Max(bookings[j].startTime, avail.slots[k].startTime)
                             < Min(bookings[j].endTime, avail.slots[k].endTime) )
                => avail.slots[k].isAvailable
    /\ ( /\ lastOp.kind = "create"
         /\ lastOp.flags.freed
         /\ lastOp.flags.resolvable )
       => lastOp.result.isSuccess

----------------------------------------------------------------------------
(* C12 *)

\* C12: an availability response for a staff member has no slots when the
\* staff member's WorkingHours entry for the weekday of the requested date
\* is disabled, has zero length, or is shorter than the service's duration.
\* The weekday of the day the module was loaded is any of the seven.
ClosedDayHasNoSlots ==
    \A loadedOn \in 0..6 :
        \A h \in DOMAIN mockWorkingHours :
            ( /\ avail # NoAvail
              /\ avail.request.staffId = mockWorkingHours[h].staffId
              /\ mockWorkingHours[h].dayOfWeek = (loadedOn + avail.request.date) % 7
              /\ \/ ~mockWorkingHours[h].isEnabled
                 \/ mockWorkingHours[h].endTime = mockWorkingHours[h].startTime
                 \/ mockWorkingHours[h].endTime - mockWorkingHours[h].startTime
                      < DurationOf(avail.request.serviceId) )
            => avail.slots = << >>

----------------------------------------------------------------------------
(* C13 *)

\* C13: boundary.  For every service duration D, every slot of an
\* availability response ends no later than the end of the working window,
\* 18:00 of the requested date, and so starts no later than 18:00 minus D.
SlotsEndWithinWindow ==
    avail # NoAvail
    => \A k \in DOMAIN avail.slots :
          /\ avail.slots[k].endTime <= At(avail.request.date, 18, 0)
          /\ avail.slots[k].startTime
                <= At(avail.request.date, 18, 0) - DurationOf(avail.request.serviceId)

----------------------------------------------------------------------------
(* C14 *)

\* slot k of the response the caller holds shares an instant with ledger
\* entry i
SlotMeets(k, i) ==
    Max(bookings[i].startTime, avail.slots[k].startTime)
      < Min(bookings[i].endTime, avail.slots[k].endTime)

\* C14: in an availability response for a staffId, a slot has
\* isAvailable = false if and only if some non-cancelled booking of that
\* staff member in that business satisfies bookingStart < slotEnd and
\* bookingEnd > slotStart; other staff members' bookings, cancelled bookings
\* and bookings that only touch an endpoint of the slot do not block it.
SlotFlagMatchesLedger ==
    (avail # NoAvail /\ avail.request.staffId # Undefined)
    => \A k \in DOMAIN avail.slots :
          ~avail.slots[k].isAvailable
          <=> \E i \in DOMAIN bookings :
                 /\ bookings[i].businessId = avail.businessId
                 /\ bookings[i].staffId = avail.request.staffId
                 /\ bookings[i].status # "cancelled"
                 /\ SlotMeets(k, i)

\* staff-1's day: 09:00 is taken by booking-4; 10:00 is free although
\* booking-4 ends at 10:00, a cancelled booking of staff-1 lies in it and
\* staff-3 is booked in it
BlockedAndFreeSlots ==
    /\ avail # NoAvail
    /\ avail.request = AvailabilityRequest(1, 1, 1)
    /\ ~avail.slots[1].isAvailable
    /\ avail.slots[2].isAvailable
    /\ \E i \in DOMAIN bookings :
          bookings[i].endTime = avail.slots[2].startTime /\ bookings[i].staffId = 1
            /\ bookings[i].status # "cancelled"
    /\ \E i \in DOMAIN bookings :
          SlotMeets(2, i) /\ bookings[i].staffId = 1 /\ bookings[i].status = "cancelled"
    /\ \E i \in DOMAIN bookings :
          SlotMeets(2, i) /\ bookings[i].staffId = 3 /\ bookings[i].status # "cancelled"

----------------------------------------------------------------------------
(* C15 *)

\* C15: updateBooking re-validates on any reassignment.  An update of a
\* pending, confirmed or no_show booking that would leave it sharing an
\* instant with another non-cancelled booking of its staff member (a change
\* of staffId alone included) returns SLOT_NOT_AVAILABLE and changes
\* nothing, so no update introduces an overlap.
UpdateRevalidates ==
    (lastOp.kind = "update" /\ lastOp.flags.overlap)
    => /\ lastOp.result = createErrorResult("SLOT_NOT_AVAILABLE", 409)
       /\ ~lastOp.changed

----------------------------------------------------------------------------
(* C16 *)

LedgerIds(ledger) == { <<ledger[i].businessId, ledger[i].id>> : i \in DOMAIN ledger }

----------------------------------------------------------------------------
(* C17 *)

\* the latest startTime among a customer's non-cancelled bookings, NoTime
\* when there is none
LastStart(customerId) ==
    LET own == BookingsOf(customerId, {"pending", "confirmed", "completed", "no_show"})
    IN  IF own = {} THEN NoTime
        ELSE bookings[CHOOSE i \in own :
                        \A j \in own : bookings[j].startTime <= bookings[i].startTime].startTime

\* C17: after any sequence of createBooking and cancelBooking calls, a
\* customer's lastVisitAt is the maximum startTime among the customer's
\* non-cancelled bookings.  Stated, as C5 is, of the customers the ledger
\* created itself.
LastVisitIsLatestStart ==
    \A k \in DOMAIN customers :
        k > Len(mockCustomers) => customers[k].lastVisitAt = LastStart(customers[k].id)

----------------------------------------------------------------------------
(* C18 *)

\* C18: getAvailability(businessId, request) succeeds only when
\* request.serviceId is a service owned by businessId; otherwise, a service
\* of another business included, it returns not-found (404) and no slots.
AvailabilityOfOwnServiceOnly ==
    /\ avail # NoAvail
       => \E i \in DOMAIN services :
             /\ services[i].id = avail.request.serviceId
             /\ services[i].businessId = avail.businessId
    /\ (lastOp.kind = "availability" /\ ~lastOp.result.isSuccess)
       => lastOp.result = createNotFoundResult /\ avail = NoAvail

----------------------------------------------------------------------------
(* C19 *)

\* C19: confirmBooking of a pending booking succeeds and makes it confirmed;
\* of a confirmed, completed, cancelled or no_show booking (one just
\* returned by createBooking included) it returns BAD_REQUEST with status
\* 400 and changes nothing.
ConfirmOnlyFromPending ==
    (lastOp.kind = "confirm" /\ lastOp.prev # "")
    => IF lastOp.prev = "pending"
       THEN /\ lastOp.result.isSuccess
            /\ StatusOf(lastOp.businessId, lastOp.id) = "confirmed"
       ELSE /\ lastOp.result = createErrorResult("BAD_REQUEST", 400)
            /\ ~lastOp.changed
            /\ StatusOf(lastOp.businessId, lastOp.id) = lastOp.prev

\* the pending booking-5 was confirmed, and the confirm of a booking that
\* createBooking had just returned was refused
ConfirmRefusedAfterCreate ==
    /\ lastOp.kind = "confirm"
    /\ lastOp.prev = "confirmed"
    /\ lastOp.result.code = "BAD_REQUEST"
    /\ \E i \in DOMAIN bookings :
          i > Len(mockBookings) /\ bookings[i].id = lastOp.id
    /\ StatusOf(1, 5) = "confirmed"

----------------------------------------------------------------------------
(* C20 *)

\* C20: customer resolution is scoped to the business.  The customer of every
\* booking made by createBooking(businessId, ...) is a customer of
\* businessId: a guest request whose customerEmail is only that of another
\* business's customer gets a new customer record in businessId.
CustomerOfSameBusiness ==
    /\ \A i \in DOMAIN bookings :
          i > Len(mockBookings)
          => CustomerById(bookings[i].customerId).businessId = bookings[i].businessId
    /\ \A g \in DOMAIN guestLog :
          CustomerById(guestLog[g].customerId).businessId = guestLog[g].businessId

----------------------------------------------------------------------------
(* The dashboard: MockStore's read helpers (src/services/mock-store.ts) and *)
(* getMockDashboardStats (src/services/reference-data.service.ts).  They    *)
(* read `new Date()`: the instant of the call and where its day lies in the *)
(* calendar month.                                                          *)

Clock(instant, dayOfMonth, daysInMonth) ==
    [instant |-> instant, dayOfMonth |-> dayOfMonth, daysInMonth |-> daysInMonth]

\* setHours(0, 0, 0, 0)
Midnight(instant) == At(DayOf(instant), 0, 0)

\* Array.prototype.sort with the comparator key(a) - key(b); the sort is stable
sortBy(arr, key(_)) ==
    LET rank(i) == Cardinality({ j \in DOMAIN arr :
                                   \/ key(arr[j]) < key(arr[i])
                                   \/ key(arr[j]) = key(arr[i]) /\ j < i })
    IN  [r \in DOMAIN arr |-> arr[CHOOSE i \in DOMAIN arr : rank(i) = r - 1]]

\* Array.prototype.slice(0, end)
slice(arr, end) == SubSeq(arr, 1, Min(end, Len(arr)))

\* reduce((sum, x) => sum + x, 0)
RECURSIVE reduceSum(_)
reduceSum(numbers) ==
    IF numbers = << >> THEN 0 ELSE Head(numbers) + reduceSum(Tail(numbers))

\* Math.round of a quotient of naturals: the nearest integer, halves upwards
round(numerator, denominator) == (2 * numerator + denominator) \div (2 * denominator)

getUpcomingBookingsOfStore(businessId, limit, clock) ==
    slice(sortBy(SelectSeq(bookings, LAMBDA b :
                    /\ b.businessId = businessId
                    /\ b.status \in {"confirmed", "pending"}
                    /\ b.startTime >= clock.instant),
                 LAMBDA b : b.startTime),
          limit)

getTodayBookingsCount(businessId, clock) ==
    LET today    == Midnight(clock.instant)
        tomorrow == today + 24 * 60
    IN  Len(SelectSeq(bookings, LAMBDA b :
            /\ b.businessId = businessId
            /\ b.status # "cancelled"
            /\ b.startTime >= today
            /\ b.startTime < tomorrow))

getWeekBookingsCount(businessId, clock) ==
    LET today       == Midnight(clock.instant)
        weekFromNow == today + 7 * 24 * 60
    IN  Len(SelectSeq(bookings, LAMBDA b :
            /\ b.businessId = businessId
            /\ b.status # "cancelled"
            /\ b.startTime >= today
            /\ b.startTime < weekFromNow))

\* new Date(year, month, 1) and new Date(year, month + 1, 0): midnight of the
\* first and midnight of the last day of the month
getMonthBookingsCount(businessId, clock) ==
    LET today        == Midnight(clock.instant)
        startOfMonth == today - (clock.dayOfMonth - 1) * 24 * 60
        endOfMonth   == today + (clock.daysInMonth - clock.dayOfMonth) * 24 * 60
    IN  Len(SelectSeq(bookings, LAMBDA b :
            /\ b.businessId = businessId
            /\ b.status # "cancelled"
            /\ b.startTime >= startOfMonth
            /\ b.startTime <= endOfMonth))

\* the four services with most non-cancelled bookings; a Map lists its keys
\* in the order they were first set
popularServices(businessId) ==
    LET counted == SelectSeq(bookings, LAMBDA b :
                       b.businessId = businessId /\ b.status # "cancelled")
        firsts  == SelectSeq([i \in DOMAIN counted |-> i], LAMBDA i :
                       \A j \in 1..(i - 1) : counted[j].serviceId # counted[i].serviceId)
        stats(i) ==
            LET same == SelectSeq(counted, LAMBDA b : b.serviceId = counted[i].serviceId)
            IN  [serviceId |-> counted[i].serviceId, bookingCount |-> Len(same),
                 revenue |-> reduceSum([k \in DOMAIN same |-> same[k].price])]
    IN  slice(sortBy([k \in DOMAIN firsts |-> stats(firsts[k])],
                     LAMBDA e : 0 - e.bookingCount),
              4)

getMockDashboardStats(businessId, clock) ==
    LET completed == SelectSeq(bookings, LAMBDA b :
                         b.businessId = businessId /\ b.status = "completed")
        totalRevenue == reduceSum([k \in DOMAIN completed |-> completed[k].price])
        completedBookings == Len(completed)
    IN  [todayBookings |-> getTodayBookingsCount(businessId, clock),
         weekBookings |-> getWeekBookingsCount(businessId, clock),
         monthBookings |-> getMonthBookingsCount(businessId, clock),
         totalCustomers |-> Len(SelectSeq(customers, LAMBDA c : c.businessId = businessId)),
         totalRevenue |-> totalRevenue,
         averageBookingValue |-> IF completedBookings > 0
                                 THEN round(totalRevenue, completedBookings) ELSE 0,
         popularServices |-> popularServices(businessId),
         upcomingBookings |-> getUpcomingBookingsOfStore(businessId, 5, clock)]

\* The day of the call is a day in the middle of a month, the last day of a
\* month or the first; the call is made when the module has just loaded or
\* the next morning.
Clocks ==
    { Clock(loadedAt, 15, 30), Clock(loadedAt, 31, 31), Clock(loadedAt, 1, 31),
      Clock(At(1, 9, 30), 16, 30) }

\* a read call: the response goes to the caller, the store is left alone
Read(kind, businessId, response) ==
    /\ view' = response
    /\ lastOp' = Op(kind, businessId, Undefined, "", createSuccessResult(200), FALSE, NoFlags)
    /\ UNCHANGED <<bookings, customers, services, staff, now, avail, cancelLog, guestLog,
                   ops, calls, localMockCustomers>>

GetDashboardStats ==
    \E businessId \in BusinessIds, clock \in Clocks :
        Read("dashboard", businessId,
             [kind |-> "dashboard", businessId |-> businessId, clock |-> clock,
              data |-> getMockDashboardStats(businessId, clock)])

\* mockGetAllBookings called with { startDate, pageSize }: the first page
mockGetAllBookings(businessId, startDate, pageSize) ==
    LET bookingsForBusiness ==
            sortBy(SelectSeq(bookings, LAMBDA b :
                       b.businessId = businessId /\ b.startTime >= startDate),
                   LAMBDA b : b.startTime)
    IN  [items |-> slice(bookingsForBusiness, pageSize),
         totalCount |-> Len(bookingsForBusiness)]

\* the helper of booking.service.ts
getUpcomingBookings(businessId, limit, clock) ==
    SelectSeq(mockGetAllBookings(businessId, clock.instant, limit).items,
              LAMBDA b : b.status \in {"confirmed", "pending"})

Limits == {1, 5}

GetUpcomingBookings ==
    \E businessId \in BusinessIds, limit \in Limits, clock \in Clocks :
        Read("upcoming", businessId,
             [kind |-> "upcoming", businessId |-> businessId, clock |-> clock,
              limit |-> limit, data |-> getUpcomingBookings(businessId, limit, clock)])

\* A salon that books, cancels and completes, and looks at its dashboard.
DashboardCreates ==
    { CreateBookingRequest(Undefined, Guest, 1, 6, At(1, 10, 30)),
      CreateBookingRequest(1, "", 3, 2, At(1, 11, 0)) }

NextDashboard ==
    \/ GetDashboardStats
    \/ GetUpcomingBookings
    \/ CreateBookingOf(MaxOps, BusinessIds, DashboardCreates)
    \/ CancelBookingOf(MaxOps, BusinessIds, BookingIds, Reasons)
    \/ CompleteBooking

SpecDashboard == Init /\ [][NextDashboard]_vars

----------------------------------------------------------------------------
(* C21 *)

\* the completed bookings of a business in the ledger
CompletedOf(businessId) ==
    { i \in DOMAIN bookings :
        bookings[i].businessId = businessId /\ bookings[i].status = "completed" }

\* C21: getDashboardStats(businessId) returns totalRevenue equal to the sum
\* of price over the business's completed bookings, and averageBookingValue
\* equal to totalRevenue divided by the number of those bookings, 0 when
\* there are none.
AverageIsRevenuePerCompleted ==
    view.kind = "dashboard"
    => /\ view.data.totalRevenue = SumPrice(CompletedOf(view.businessId))
       /\ IF CompletedOf(view.businessId) = {}
          THEN view.data.averageBookingValue = 0
          ELSE view.data.averageBookingValue * Cardinality(CompletedOf(view.businessId))
                 = view.data.totalRevenue

----------------------------------------------------------------------------
(* The service catalogue: mockUpdateService and mockDeleteService of the    *)
(* service service.  A handler yields its result and the store it leaves.   *)

StoreAfter(result, newServices, newBookings, newCustomers) ==
    [result |-> result, services |-> newServices, bookings |-> newBookings,
     customers |-> newCustomers]

\* durationMinutes and price are Undefined when left out
UpdateServiceRequest(durationMinutes, price) ==
    [durationMinutes |-> durationMinutes, price |-> price]

\* { ...service, ...request }
updatedService(service, request) ==
    [service EXCEPT
       !.durationMinutes = IF request.durationMinutes # Undefined
                           THEN request.durationMinutes ELSE @,
       !.price = IF request.price # Undefined THEN request.price ELSE @]

\* mockUpdateService that also rewrites the bookings made for the service
mockUpdateServiceRetroactive(businessId, serviceId, request) ==
    LET index == findIndex(services, LAMBDA s : s.id = serviceId /\ s.businessId = businessId)
    IN  IF index = 0
        THEN StoreAfter(createNotFoundResult, services, bookings, customers)
        ELSE StoreAfter(createSuccessResult(200),
                        [services EXCEPT ![index] = updatedService(services[index], request)],
                        [i \in DOMAIN bookings |->
                            IF bookings[i].serviceId = serviceId
                            THEN [bookings[i] EXCEPT
                                    !.price = updatedService(services[index], request).price,
                                    !.endTime = bookings[i].startTime
                                       + updatedService(services[index], request).durationMinutes]
                            ELSE bookings[i]],
                        customers)

mockUpdateService(businessId, serviceId, request) ==
    LET index == findIndex(services, LAMBDA s : s.id = serviceId /\ s.businessId = businessId)
    IN  IF index = 0
        THEN StoreAfter(createNotFoundResult, services, bookings, customers)
        ELSE StoreAfter(createSuccessResult(200),
                        [services EXCEPT ![index] = updatedService(services[index], request)],
                        bookings, customers)

\* services.splice(index, 1)
mockDeleteService(businessId, serviceId) ==
    LET index == findIndex(services, LAMBDA s : s.id = serviceId /\ s.businessId = businessId)
    IN  IF index = 0
        THEN StoreAfter(createNotFoundResult, services, bookings, customers)
        ELSE StoreAfter(createSuccessResult(200),
                        SubSeq(services, 1, index - 1)
                          \o SubSeq(services, index + 1, Len(services)),
                        bookings, customers)

\* the exported function of the service service, awaited by its caller
CatalogCall(kind, businessId, serviceId, o) ==
    /\ o.services # services => ops < MaxOps
    /\ services' = o.services
    /\ bookings' = o.bookings
    /\ customers' = o.customers
    /\ ops' = IF o.services # services THEN ops + 1 ELSE ops
    /\ now' = IF o.services # services THEN now + 1 ELSE now
    /\ avail' = IF o.services # services THEN NoAvail ELSE avail
    /\ view' = IF o.services # services THEN NoView ELSE view
    /\ lastOp' = Op(kind, businessId, serviceId, "", o.result, o.services # services, NoFlags)
    /\ UNCHANGED <<staff, cancelLog, guestLog, calls, localMockCustomers>>

\* the 20-minute 'service-7' of booking-5 is cut to 10 minutes, or a service
\* is repriced; 'service-9' does not exist
ServiceIds == {2, 7, 9}

UpdateServiceRequests ==
    { UpdateServiceRequest(10, Undefined), UpdateServiceRequest(Undefined, 999) }

UpdateService ==
    \E businessId \in BusinessIds, serviceId \in ServiceIds, request \in UpdateServiceRequests :
        CatalogCall("updateService", businessId, serviceId,
                    mockUpdateService(businessId, serviceId, request))

DeleteService ==
    \E businessId \in BusinessIds, serviceId \in ServiceIds :
        CatalogCall("deleteService", businessId, serviceId,
                    mockDeleteService(businessId, serviceId))

\* A salon that edits its services between bookings and reschedulings.
CatalogCreates ==
    { CreateBookingRequest(Undefined, Guest, 1, 2, At(1, 10, 30)),
      CreateBookingRequest(1, "", 3, 7, At(1, 11, 0)) }

CatalogUpdates ==
    { UpdateBookingRequest(1, At(1, 8, 50)),
      UpdateBookingRequest(Undefined, At(1, 10, 50)) }

NextCatalog ==
    \/ UpdateService
    \/ DeleteService
    \/ CreateBookingOf(MaxOps, BusinessIds, CatalogCreates)
    \/ UpdateBookingOf(MaxOps, BusinessIds, CatalogUpdates)

SpecCatalog == Init /\ [][NextCatalog]_vars

----------------------------------------------------------------------------
(* C22 *)

\* the service a request names, as the catalogue has it
ServiceOf(serviceId) ==
    CHOOSE s \in { services[i] : i \in DOMAIN services } : s.id = serviceId

\* C22: every successful createBooking stores exactly one new booking: its
\* status is confirmed, its endTime is its startTime plus the duration of
\* the service as the catalogue has it at the call, its price and currency
\* are that service's, and its customerId is the id of the customer the
\* request resolves to (the one named, else the one with the e-mail, else
\* the one the call creates).
CreateStoresOneBooking ==
    [][ (lastOp'.kind = "create" /\ lastOp'.result.isSuccess /\ ops' # ops)
        => LET new     == bookings'[Len(bookings')]
               byId    == { k \in DOMAIN customers :
                              customers[k].id = lastOp'.flags.customerId }
               byEmail == { k \in DOMAIN customers :
                              customers[k].email = lastOp'.flags.email }
           IN  /\ Len(bookings') = Len(bookings) + 1
               /\ SubSeq(bookings', 1, Len(bookings)) = bookings
               /\ new.id = lastOp'.id
               /\ new.businessId = lastOp'.businessId
               /\ new.status = "confirmed"
               /\ KnownService(new.serviceId)
               /\ new.endTime = new.startTime + ServiceOf(new.serviceId).durationMinutes
               /\ new.price = ServiceOf(new.serviceId).price
               /\ new.currency = ServiceOf(new.serviceId).currency
               /\ IF byId # {} THEN new.customerId = lastOp'.flags.customerId
                  ELSE IF byEmail # {}
                  THEN new.customerId \in { customers[k].id : k \in byEmail }
                  ELSE /\ Len(customers') = Len(customers) + 1
                       /\ customers'[Len(customers')].id = new.customerId
                       /\ customers'[Len(customers')].email = lastOp'.flags.email ]_vars

\* a guest booked a service after it had been repriced
BookedAtNewPrice ==
    /\ lastOp.kind = "create"
    /\ lastOp.result.isSuccess
    /\ lastOp.flags.email = Guest
    /\ bookings[Len(bookings)].id = lastOp.id
    /\ bookings[Len(bookings)].price = 999
    /\ bookings[Len(bookings)].price # mockServices[bookings[Len(bookings)].serviceId].price

----------------------------------------------------------------------------
(* C23 *)

\* what a booking recorded of its service when it was made
Recorded(b) ==
    [price |-> b.price, currency |-> b.currency, startTime |-> b.startTime,
     endTime |-> b.endTime]

\* C23: service edits are not retroactive.  An updateService call leaves
\* the price, currency, startTime and endTime of every booking and every
\* customer's totalSpent as they were.
ServiceEditNotRetroactive ==
    [][ lastOp'.kind = "updateService" /\ ops' # ops
        => /\ DOMAIN bookings' = DOMAIN bookings
           /\ \A i \in DOMAIN bookings : Recorded(bookings'[i]) = Recorded(bookings[i])
           /\ DOMAIN customers' = DOMAIN customers
           /\ \A k \in DOMAIN customers :
                 customers'[k].totalSpent = customers[k].totalSpent ]_vars

\* the price or the duration of a service differs from the one a booking
\* made for it recorded (and a guest has paid the old price)
BookingKeepsOldTerms ==
    /\ lastOp.kind = "updateService"
    /\ lastOp.result.isSuccess
    /\ \E i \in DOMAIN bookings :
          /\ i > Len(mockBookings)
          /\ bookings[i].serviceId = lastOp.id
          /\ KnownService(lastOp.id)
          /\ \/ bookings[i].price # ServiceOf(lastOp.id).price
             \/ bookings[i].endTime - bookings[i].startTime
                  # ServiceOf(lastOp.id).durationMinutes

----------------------------------------------------------------------------
(* C24 *)

\* C24: booking ids are unique.  After any successful createBooking calls,
\* two that complete within the same clock millisecond included, no two
\* bookings of the ledger share an id.
BookingIdsUnique ==
    \A i, j \in DOMAIN bookings : i # j => bookings[i].id # bookings[j].id

----------------------------------------------------------------------------
(* C25 *)

\* C25: the interval updateBooking checks is the interval it writes.  After
\* a successful updateBooking with a new startTime, the stored
\* [startTime, endTime) of the booking overlaps no other non-cancelled
\* booking of its staff member, also when the service's durationMinutes was
\* changed or the service deleted since the booking was made.
MovedBookingOverlapsNone ==
    (lastOp.kind = "update" /\ lastOp.result.isSuccess /\ lastOp.flags.moved)
    => \A i, j \in DOMAIN bookings :
          ( /\ bookings[i].id = lastOp.id
            /\ bookings[i].businessId = lastOp.businessId
            /\ j # i
            /\ bookings[j].businessId = bookings[i].businessId
            /\ bookings[j].staffId = bookings[i].staffId
            /\ bookings[j].status # "cancelled" )
          => ~ ( Max(bookings[i].startTime, bookings[j].startTime)
                   < Min(bookings[i].endTime, bookings[j].endTime) )

----------------------------------------------------------------------------
(* C26 *)

\* C26: cancelled is absorbing.  Once a booking's status is cancelled, no
\* update, cancel, confirm, complete or markNoShow call changes its status,
\* staffId, startTime or endTime.
CancelledIsAbsorbing ==
    [][ \A i \in DOMAIN bookings :
          bookings[i].status = "cancelled"
          => /\ bookings'[i].status = "cancelled"
             /\ bookings'[i].staffId = bookings[i].staffId
             /\ bookings'[i].startTime = bookings[i].startTime
             /\ bookings'[i].endTime = bookings[i].endTime ]_vars

----------------------------------------------------------------------------
(* C27, C28 *)

\* C27: the dashboard windows are nested.  In every getDashboardStats
\* response todayBookings is at most weekBookings and at most monthBookings,
\* the last day of a month included.
DashboardWindowsNested ==
    view.kind = "dashboard"
    => /\ view.data.todayBookings <= view.data.weekBookings
       /\ view.data.todayBookings <= view.data.monthBookings

----------------------------------------------------------------------------
(* Customer service: src/services/customer.service.ts *)

CustomerOutcome(result, newLocalMockCustomers, id) ==
    [result |-> result, localMockCustomers |-> newLocalMockCustomers, id |-> id]

mockGetCustomerById(businessId, customerId) ==
    LET index == findIndex(localMockCustomers,
                           LAMBDA c : c.id = customerId /\ c.businessId = businessId)
    IN  IF index = 0 THEN createNotFoundResult ELSE createSuccessResult(200)

mockCreateCustomer(businessId, email) ==
    LET existingCustomer == findIndex(localMockCustomers,
                                LAMBDA c : c.businessId = businessId /\ c.email = email)
        newCustomer == [id |-> TimeId(now), businessId |-> businessId, email |-> email]
    IN  IF existingCustomer # 0
        THEN CustomerOutcome(createErrorResult("CUSTOMER_EMAIL_EXISTS", 409),
                             localMockCustomers, Undefined)
        ELSE CustomerOutcome(createSuccessResult(201),
                             Append(localMockCustomers, newCustomer), newCustomer.id)

New == "new@email.com"
CustomerEmails == {Guest, Anna, New}

\* customers added after load: by createCustomer to the service's list, by
\* createBooking (guests) to the store
CreatedByService == { localMockCustomers[i] : i \in Len(mockCustomers) + 1 .. Len(localMockCustomers) }
GuestsOfStore == { customers[i] : i \in Len(mockCustomers) + 1 .. Len(customers) }

CustomerIds == {1} \cup { c.id : c \in CreatedByService } \cup { c.id : c \in GuestsOfStore }

CreateCustomer ==
    \E businessId \in BusinessIds, email \in CustomerEmails :
        LET o       == mockCreateCustomer(businessId, email)
            changed == o.localMockCustomers # localMockCustomers
        IN  /\ changed => ops < MaxOps
            /\ localMockCustomers' = o.localMockCustomers
            /\ ops' = IF changed THEN ops + 1 ELSE ops
            /\ now' = IF changed THEN now + 1 ELSE now
            /\ lastOp' = Op("createCustomer", businessId, o.id, "", o.result, changed,
                            [NoFlags EXCEPT !.email = email])
            /\ UNCHANGED <<bookings, customers, services, staff, avail, view, cancelLog,
                           guestLog, calls>>

GetCustomerById ==
    \E businessId \in BusinessIds, customerId \in CustomerIds :
        /\ lastOp' = Op("getCustomer", businessId, customerId, "",
                        mockGetCustomerById(businessId, customerId), FALSE, NoFlags)
        /\ UNCHANGED <<bookings, customers, services, staff, now, avail, view, cancelLog,
                       guestLog, ops, calls, localMockCustomers>>

CustomerCreates ==
    { CreateBookingRequest(Undefined, Guest, 1, 2, At(1, 10, 30)),
      CreateBookingRequest(1, "", 3, 2, At(1, 11, 0)) }
    \cup { CreateBookingRequest(c.id, "", 3, 2, At(1, 11, 0)) : c \in CreatedByService }

NextCustomers ==
    \/ CreateCustomer
    \/ GetCustomerById
    \/ CreateBookingOf(MaxOps, BusinessIds, CustomerCreates)

SpecCustomers == Init /\ [][NextCustomers]_vars

----------------------------------------------------------------------------
(* C29 *)

\* C29: the customer service and the booking ledger see one customer set.  A
\* createBooking that names, with no guest fields, a customer created by
\* createCustomer for that business does not fail with CUSTOMER_NOT_FOUND; a
\* guest created by createBooking is returned by getCustomerById; and
\* createCustomer with that guest's e-mail fails with CUSTOMER_EMAIL_EXISTS.
OneCustomerSet ==
    /\ ( /\ lastOp.kind = "create"
         /\ lastOp.flags.email = ""
         /\ \E c \in CreatedByService :
               c.id = lastOp.flags.customerId /\ c.businessId = lastOp.businessId )
       => lastOp.result.code # "CUSTOMER_NOT_FOUND"
    /\ ( /\ lastOp.kind = "getCustomer"
         /\ \E c \in GuestsOfStore :
               c.id = lastOp.id /\ c.businessId = lastOp.businessId )
       => lastOp.result.isSuccess
    /\ ( /\ lastOp.kind = "createCustomer"
         /\ \E c \in GuestsOfStore :
               c.email = lastOp.flags.email /\ c.businessId = lastOp.businessId )
       => lastOp.result.code = "CUSTOMER_EMAIL_EXISTS"

----------------------------------------------------------------------------
(* C30 *)

\* the ledger without updateBooking, under one caller that awaits each call
NextNoUpdate ==
    \/ CreateBooking
    \/ CancelBooking
    \/ ConfirmBooking
    \/ CompleteBooking
    \/ MarkBookingNoShow

SpecNoUpdate == Init /\ [][NextNoUpdate]_vars

\* C30: ignoring buffers, after any sequence of createBooking, cancelBooking,
\* confirmBooking, completeBooking and markBookingNoShow calls from the seed,
\* no two non-cancelled bookings with the same businessId and staffId have
\* overlapping half-open [startTime, endTime) intervals.
NoOverlapWithoutUpdates ==
    \A i, j \in DOMAIN bookings :
        ( /\ i < j
          /\ bookings[i].businessId = bookings[j].businessId
          /\ bookings[i].staffId = bookings[j].staffId
          /\ bookings[i].status # "cancelled"
          /\ bookings[j].status # "cancelled" )
        => ~ ( Max(bookings[i].startTime, bookings[j].startTime)
                 < Min(bookings[i].endTime, bookings[j].endTime) )

====
